---------------------------- MODULE Spec2Model ----------------------------
(***************************************************************************)
(* Model of UNFLoader/helper.cpp: the termination protocol (terminate),    *)
(* the device-error classifier (handle_deviceerror), the identifier codec  *)
(* (cart/cic/save _strtotype and _typetostr), the filename generator       *)
(* (gen_filename) and the progress renderer (progressbar_draw).            *)
(*                                                                         *)
(* C strings are sequences of byte values (ASCII codes) without the        *)
(* terminating NUL; At(s, i) reads s[i] the way C does, giving the NUL at  *)
(* index Len(s).                                                           *)
(***************************************************************************)
EXTENDS Integers, Sequences, FiniteSets, TLC

\* ---------------------------------------------------------------- strings

\* s[i] of a NUL-terminated C string (zero-based); the terminator is 0
At(s, i) == IF i < Len(s) THEN s[i + 1] ELSE 0

\* the byte value of the character '0'
CH_0 == 48

\* printf's %d: the decimal digits of an int, with a sign when negative
RECURSIVE NatDec(_)
NatDec(n) == IF n < 10 THEN <<CH_0 + n>> ELSE NatDec(n \div 10) \o <<CH_0 + (n % 10)>>

Dec(n) == IF n < 0 THEN <<45>> \o NatDec(0 - n) ELSE NatDec(n)

\* printf's %02d: at least two characters, padded with '0' on the left
Dec02(n) == IF n >= 0 /\ n < 10 THEN <<CH_0>> \o NatDec(n) ELSE Dec(n)

\* index (one-based) of the first '%' of fmt, or 0 when it has none
FirstPercent(fmt) ==
    IF \E i \in 1..Len(fmt) : fmt[i] = 37
    THEN CHOOSE i \in 1..Len(fmt) : fmt[i] = 37 /\ \A j \in 1..(i - 1) : fmt[j] # 37
    ELSE 0

\* vsprintf(temp, fmt, args) for the conversions the callers use: bytes are
\* copied up to a '%', then %s gives the string argument, %d the int argument
\* in decimal, %% a '%'
RECURSIVE Format(_, _, _)
Format(fmt, s, d) ==
    LET p == FirstPercent(fmt)
        head == SubSeq(fmt, 1, p - 1)
        rest == SubSeq(fmt, p + 2, Len(fmt))
    IN  IF p = 0 THEN fmt
        ELSE IF At(fmt, p) = 115 THEN head \o s \o Format(rest, s, d)
        ELSE IF At(fmt, p) = 100 THEN head \o Dec(d) \o Format(rest, s, d)
        ELSE IF At(fmt, p) = 37 THEN head \o <<37>> \o Format(rest, s, d)
        ELSE head \o <<37>> \o Format(SubSeq(fmt, p + 1, Len(fmt)), s, d)

\* t occurs in s as a contiguous run of bytes (strstr(s, t) != NULL)
Contains(s, t) ==
    \E k \in 0..(Len(s) - Len(t)) : \A j \in 1..Len(t) : s[k + j] = t[j]

\* the reason argument of terminate: NULL, or a format with its arguments
NullReason == [null |-> TRUE, fmt |-> <<>>, s |-> <<>>, d |-> 0]

Reason(fmt, s, d) == [null |-> FALSE, fmt |-> fmt, s |-> s, d |-> d]

\* ---------------------------------------------------------------- literals

\* "Error: " of "Error: %s"
STR_Error ==
    <<69,114,114,111,114,58,32>>

\* "\n"
STR_Newline ==
    <<10>>

\* "Press any key to continue...\n"
STR_PressAnyKey ==
    <<80,114,101,115,115,32,97,110,121,32,107,101,121,32,116,111,32,99,111,110,116,105,110,117,
      101,46,46,46,10>>

\* "Unknown flashcart type '%s'"
STR_UnknownCart ==
    <<85,110,107,110,111,119,110,32,102,108,97,115,104,99,97,114,116,32,116,121,112,101,32,39,
      37,115,39>>

\* "Unknown CIC '%s'"
STR_UnknownCIC ==
    <<85,110,107,110,111,119,110,32,67,73,67,32,39,37,115,39>>

\* "Unknown save type '%s'"
STR_UnknownSave ==
    <<85,110,107,110,111,119,110,32,115,97,118,101,32,116,121,112,101,32,39,37,115,39>>

\* "Upload cancelled by the user.\n"
STR_UploadCancelled ==
    <<85,112,108,111,97,100,32,99,97,110,99,101,108,108,101,100,32,98,121,32,116,104,101,32,117,
      115,101,114,46,10>>

\* "Unhandled device error '%d'.\n"
STR_Unhandled ==
    <<85,110,104,97,110,100,108,101,100,32,100,101,118,105,99,101,32,101,114,114,111,114,32,39,
      37,100,39,46,10>>

\* line 385: "USB Device not ready."
MSG_USBBUSY ==
    <<85,83,66,32,68,101,118,105,99,101,32,110,111,116,32,114,101,97,100,121,46>>

\* line 388: "No FTDI USB devices found."
MSG_NODEVICES ==
    <<78,111,32,70,84,68,73,32,85,83,66,32,100,101,118,105,99,101,115,32,102,111,117,110,100,
      46>>

\* line 394: "No flashcart detected"
MSG_CARTFINDFAIL_NONE ==
    <<78,111,32,102,108,97,115,104,99,97,114,116,32,100,101,116,101,99,116,101,100>>

\* line 396: "No flashcart detected. Are you running sudo?"
MSG_CARTFINDFAIL_NONE_LINUX ==
    <<78,111,32,102,108,97,115,104,99,97,114,116,32,100,101,116,101,99,116,101,100,46,32,65,114,
      101,32,121,111,117,32,114,117,110,110,105,110,103,32,115,117,100,111,63>>

\* line 400: "Requested flashcart not detected."
MSG_CARTFINDFAIL_REQUESTED ==
    <<82,101,113,117,101,115,116,101,100,32,102,108,97,115,104,99,97,114,116,32,110,111,116,32,
      100,101,116,101,99,116,101,100,46>>

\* line 403: "Could not open USB device."
MSG_CANTOPEN ==
    <<67,111,117,108,100,32,110,111,116,32,111,112,101,110,32,85,83,66,32,100,101,118,105,99,
      101,46>>

\* line 406: "Unable to reset USB device."
MSG_RESETFAIL ==
    <<85,110,97,98,108,101,32,116,111,32,114,101,115,101,116,32,85,83,66,32,100,101,118,105,99,
      101,46>>

\* line 409: "Unable to reset USB port."
MSG_RESETPORTFAIL ==
    <<85,110,97,98,108,101,32,116,111,32,114,101,115,101,116,32,85,83,66,32,112,111,114,116,46>>

\* line 412: "Unable to set flashcart timeouts."
MSG_TIMEOUTSETFAIL ==
    <<85,110,97,98,108,101,32,116,111,32,115,101,116,32,102,108,97,115,104,99,97,114,116,32,116,
      105,109,101,111,117,116,115,46>>

\* line 415: "Unable to purge USB contents."
MSG_PURGEFAIL ==
    <<85,110,97,98,108,101,32,116,111,32,112,117,114,103,101,32,85,83,66,32,99,111,110,116,101,
      110,116,115,46>>

\* line 418: "Unable to read from flashcart."
MSG_READFAIL ==
    <<85,110,97,98,108,101,32,116,111,32,114,101,97,100,32,102,114,111,109,32,102,108,97,115,
      104,99,97,114,116,46>>

\* line 421: "Unable to write to flashcart."
MSG_WRITEFAIL ==
    <<85,110,97,98,108,101,32,116,111,32,119,114,105,116,101,32,116,111,32,102,108,97,115,104,
      99,97,114,116,46>>

\* line 424: "Zero bytes were written to flashcart."
MSG_WRITEZERO ==
    <<90,101,114,111,32,98,121,116,101,115,32,119,101,114,101,32,119,114,105,116,116,101,110,32,
      116,111,32,102,108,97,115,104,99,97,114,116,46>>

\* line 427: "Unable to close flashcart."
MSG_CLOSEFAIL ==
    <<85,110,97,98,108,101,32,116,111,32,99,108,111,115,101,32,102,108,97,115,104,99,97,114,116,
      46>>

\* line 430: "Unable to set bitmode %d."
MSG_BITMODEFAIL_RESET ==
    <<85,110,97,98,108,101,32,116,111,32,115,101,116,32,98,105,116,109,111,100,101,32,37,100,
      46>>

\* line 433: "Unable to set bitmode %d."
MSG_BITMODEFAIL_SYNCFIFO ==
    <<85,110,97,98,108,101,32,116,111,32,115,101,116,32,98,105,116,109,111,100,101,32,37,100,
      46>>

\* line 436: "Unable to set DTR line."
MSG_SETDTRFAIL ==
    <<85,110,97,98,108,101,32,116,111,32,115,101,116,32,68,84,82,32,108,105,110,101,46>>

\* line 439: "Unable to clear DTR line."
MSG_CLEARDTRFAIL ==
    <<85,110,97,98,108,101,32,116,111,32,99,108,101,97,114,32,68,84,82,32,108,105,110,101,46>>

\* line 442: "Actual bytes written amount is different than desired."
MSG_TXREPLYMISMATCH ==
    <<65,99,116,117,97,108,32,98,121,116,101,115,32,119,114,105,116,116,101,110,32,97,109,111,
      117,110,116,32,105,115,32,100,105,102,102,101,114,101,110,116,32,116,104,97,110,32,100,
      101,115,105,114,101,100,46>>

\* line 445: "Unable to read completion signal."
MSG_READCOMPSIGFAIL ==
    <<85,110,97,98,108,101,32,116,111,32,114,101,97,100,32,99,111,109,112,108,101,116,105,111,
      110,32,115,105,103,110,97,108,46>>

\* line 448: "Did not receive completion signal."
MSG_NOCOMPSIG ==
    <<68,105,100,32,110,111,116,32,114,101,99,101,105,118,101,32,99,111,109,112,108,101,116,105,
      111,110,32,115,105,103,110,97,108,46>>

\* line 451: "Unable to read packet size."
MSG_READPACKSIZEFAIL ==
    <<85,110,97,98,108,101,32,116,111,32,114,101,97,100,32,112,97,99,107,101,116,32,115,105,122,
      101,46>>

\* line 454: "Wrong read packet size."
MSG_BADPACKSIZE ==
    <<87,114,111,110,103,32,114,101,97,100,32,112,97,99,107,101,116,32,115,105,122,101,46>>

\* line 457: "Malloc failure."
MSG_MALLOCFAIL ==
    <<77,97,108,108,111,99,32,102,97,105,108,117,114,101,46>>

\* line 463: "Flashcart timed out."
MSG_TIMEOUT ==
    <<70,108,97,115,104,99,97,114,116,32,116,105,109,101,100,32,111,117,116,46>>

\* line 466: "The 8303 CIC is not supported through USB."
MSG_64D_8303USB ==
    <<84,104,101,32,56,51,48,51,32,67,73,67,32,105,115,32,110,111,116,32,115,117,112,112,111,
      114,116,101,100,32,116,104,114,111,117,103,104,32,85,83,66,46>>

\* line 469: "Received bad CMP signal."
MSG_64D_BADCMP ==
    <<82,101,99,101,105,118,101,100,32,98,97,100,32,67,77,80,32,115,105,103,110,97,108,46>>

\* line 472: "Please upgrade to firmware 2.05 or higher to access USB debugging."
MSG_64D_CANTDEBUG ==
    <<80,108,101,97,115,101,32,117,112,103,114,97,100,101,32,116,111,32,102,105,114,109,119,97,
      114,101,32,50,46,48,53,32,111,114,32,104,105,103,104,101,114,32,116,111,32,97,99,99,101,
      115,115,32,85,83,66,32,100,101,98,117,103,103,105,110,103,46>>

\* line 475: "Unexpected DMA header."
MSG_64D_BADDMA ==
    <<85,110,101,120,112,101,99,116,101,100,32,68,77,65,32,104,101,97,100,101,114,46>>

\* line 478: "Couldn't perform SC64 controller reset."
MSG_SC64_CTRLRESETFAIL ==
    <<67,111,117,108,100,110,39,116,32,112,101,114,102,111,114,109,32,83,67,54,52,32,99,111,110,
      116,114,111,108,108,101,114,32,114,101,115,101,116,46>>

\* line 481: "Couldn't release SC64 controller reset."
MSG_SC64_CTRLRELEASEFAIL ==
    <<67,111,117,108,100,110,39,116,32,114,101,108,101,97,115,101,32,83,67,54,52,32,99,111,110,
      116,114,111,108,108,101,114,32,114,101,115,101,116,46>>

\* line 484: "Couldn't get SC64 firmware version."
MSG_SC64_FIRMWARECHECKFAIL ==
    <<67,111,117,108,100,110,39,116,32,103,101,116,32,83,67,54,52,32,102,105,114,109,119,97,114,
      101,32,118,101,114,115,105,111,110,46>>

\* line 487: "Unknown SC64 firmware version."
MSG_SC64_FIRMWAREUNKNOWN ==
    <<85,110,107,110,111,119,110,32,83,67,54,52,32,102,105,114,109,119,97,114,101,32,118,101,
      114,115,105,111,110,46>>

\* ---------------------------------------------------------------- identifier codec

\* In order of the CartType enums
cart_strings ==
    << <<54,52,68,114,105,118,101,32,72,87,49>>   \* "64Drive HW1"
     , <<54,52,68,114,105,118,101,32,72,87,50>>   \* "64Drive HW2"
     , <<69,118,101,114,68,114,105,118,101>>   \* "EverDrive"
     , <<83,67,54,52>>   \* "SC64"
    >>

cart_strcount == Len(cart_strings)

\* In order of the CICType enums
cic_strings ==
    << <<54,49,48,49>>   \* "6101"
     , <<54,49,48,50>>   \* "6102"
     , <<55,49,48,49>>   \* "7101"
     , <<55,49,48,50>>   \* "7102"
     , <<88,49,48,51>>   \* "X103"
     , <<88,49,48,53>>   \* "X105"
     , <<88,49,48,54>>   \* "X106"
     , <<53,49,48,49>>   \* "5101"
    >>

cic_strcount == Len(cic_strings)

\* In order of the SaveType enums
save_strings ==
    << <<69,69,80,82,79,77,32,52,75,98,105,116>>   \* "EEPROM 4Kbit"
     , <<69,69,80,82,79,77,32,49,54,75,98,105,116>>   \* "EEPROM 16Kbit"
     , <<83,82,65,77,32,50,53,54,75,98,105,116>>   \* "SRAM 256Kbit"
     , <<70,108,97,115,104,82,65,77,32,49,77,98,105,116>>   \* "FlashRAM 1Mbit"
     , <<83,82,65,77,32,55,54,56,75,98,105,116>>   \* "SRAM 768Kbit"
     , <<70,108,97,115,104,82,65,77,32,49,77,98,105,116,32,40,80,111,107,101,83,116,100,109,50,41>>   \* "FlashRAM 1Mbit (PokeStdm2)"
    >>

save_strcount == Len(save_strings)

\* CartType, CICType and SaveType (main.h / device.h): the values the source
\* relies on when it maps table index i to (CartType)(i+1), (CICType)i and
\* (SaveType)(i+1)
CART_NONE == 0

CART_64DRIVE1 == 1

CART_SC64 == 4

CIC_NONE == -1

CIC_6101 == 0

CIC_5101 == 7

SAVE_NONE == 0

SAVE_EEPROM4K == 1

SAVE_FLASHRAMPKMN == 6

CartTypes == CART_64DRIVE1..CART_SC64

CICTypes == CIC_6101..CIC_5101

SaveTypes == SAVE_EEPROM4K..SAVE_FLASHRAMPKMN

\* a[i] of a C array held as a sequence (zero-based index)
ArrayAt(a, i) == a[i + 1]

\* the i at which  for (i=0; i<count; i++) if (!strcmp(table[i], s)) return ...
\* leaves the loop; count when no entry compares equal
FirstMatch(table, count, s) ==
    IF \E i \in 0..(count - 1) : ArrayAt(table, i) = s
    THEN CHOOSE i \in 0..(count - 1) :
            /\ ArrayAt(table, i) = s
            /\ \A j \in 0..(i - 1) : ArrayAt(table, j) # s
    ELSE count

\* what a parser does: return a value, or call terminate(reason)
ParseReturn(v) == [term |-> FALSE, value |-> v, reason |-> NullReason]

ParseTerminate(r) == [term |-> TRUE, value |-> 0, reason |-> r]

cart_strtotype(cartstring) ==
    IF /\ At(cartstring, 0) >= CH_0 + CART_64DRIVE1
       /\ At(cartstring, 0) <= CH_0 + CART_SC64
       /\ At(cartstring, 1) = 0
    THEN ParseReturn(At(cartstring, 0) - CH_0)
    ELSE LET i == FirstMatch(cart_strings, cart_strcount, cartstring)
         IN  IF i < cart_strcount
             THEN ParseReturn(i + 1)
             ELSE ParseTerminate(Reason(STR_UnknownCart, cartstring, 0))

cart_typetostr(cartenum) == ArrayAt(cart_strings, cartenum - 1)

\* a CIC parser that adjusts the table index as the cart and save parsers do
cic_strtotype_adjusted(cicstring) ==
    IF /\ At(cicstring, 0) >= CH_0 + CIC_6101
       /\ At(cicstring, 0) <= CH_0 + CIC_5101
       /\ At(cicstring, 1) = 0
    THEN ParseReturn(At(cicstring, 0) - CH_0)
    ELSE LET i == FirstMatch(cic_strings, cic_strcount, cicstring)
         IN  IF i < cic_strcount
             THEN ParseReturn(i + 1)
             ELSE ParseTerminate(Reason(STR_UnknownCIC, cicstring, 0))

cic_strtotype(cicstring) ==
    IF /\ At(cicstring, 0) >= CH_0 + CIC_6101
       /\ At(cicstring, 0) <= CH_0 + CIC_5101
       /\ At(cicstring, 1) = 0
    THEN ParseReturn(At(cicstring, 0) - CH_0)
    ELSE LET i == FirstMatch(cic_strings, cic_strcount, cicstring)
         IN  IF i < cic_strcount
             THEN ParseReturn(i)
             ELSE ParseTerminate(Reason(STR_UnknownCIC, cicstring, 0))

cic_typetostr(cicenum) == ArrayAt(cic_strings, cicenum)

save_strtotype(savestring) ==
    IF /\ At(savestring, 0) >= CH_0 + SAVE_EEPROM4K
       /\ At(savestring, 0) <= CH_0 + SAVE_FLASHRAMPKMN
       /\ At(savestring, 1) = 0
    THEN ParseReturn(At(savestring, 0) - CH_0)
    ELSE LET i == FirstMatch(save_strings, save_strcount, savestring)
         IN  IF i < save_strcount
             THEN ParseReturn(i + 1)
             ELSE ParseTerminate(Reason(STR_UnknownSave, savestring, 0))

save_typetostr(saveenum) == ArrayAt(save_strings, saveenum - 1)

\* ---------------------------------------------------------------- device errors

\* one call of a collaborator, in the order the calls are made; text is the
\* formatted text of a log call and empty for every other call
LogColored(text, color) == [fn |-> "log_colored", color |-> color, text |-> text]

LogReplace(text, color) == [fn |-> "log_replace", color |-> color, text |-> text]

Call(fn) == [fn |-> fn, color |-> "", text |-> <<>>]

\* FT_BITMODE_RESET and FT_BITMODE_SYNC_FIFO of the FTDI D2XX header
FT_BITMODE_RESET == 0

FT_BITMODE_SYNC_FIFO == 64

\* what handle_deviceerror does: call terminate(reason), or log and return
\* a handler that reports the failure and goes on
HdeLogOnly(r) ==
    [term |-> FALSE, reason |-> NullReason,
     log |-> <<LogColored(Format(r.fmt, r.s, r.d), "CRDEF_ERROR")>>]

HdeTerminate(r) == [term |-> TRUE, reason |-> r, log |-> <<>>]

HdeReturn(lines) == [term |-> FALSE, reason |-> NullReason, log |-> lines]

\* a DeviceError value: one of the enumerators, or a number outside them
Named(n) == [name |-> n, val |-> 0]

Unnamed(k) == [name |-> "", val |-> k]

\* the enumerators of DeviceError (device.h): the two sentinels and the case
\* labels of the switch
DeviceErrorNames ==
    { "DEVICEERR_OK", "DEVICEERR_NOTCART", "DEVICEERR_USBBUSY",
      "DEVICEERR_NODEVICES", "DEVICEERR_CARTFINDFAIL", "DEVICEERR_CANTOPEN",
      "DEVICEERR_RESETFAIL", "DEVICEERR_RESETPORTFAIL", "DEVICEERR_TIMEOUTSETFAIL",
      "DEVICEERR_PURGEFAIL", "DEVICEERR_READFAIL", "DEVICEERR_WRITEFAIL",
      "DEVICEERR_WRITEZERO", "DEVICEERR_CLOSEFAIL", "DEVICEERR_BITMODEFAIL_RESET",
      "DEVICEERR_BITMODEFAIL_SYNCFIFO", "DEVICEERR_SETDTRFAIL", "DEVICEERR_CLEARDTRFAIL",
      "DEVICEERR_TXREPLYMISMATCH", "DEVICEERR_READCOMPSIGFAIL", "DEVICEERR_NOCOMPSIG",
      "DEVICEERR_READPACKSIZEFAIL", "DEVICEERR_BADPACKSIZE", "DEVICEERR_MALLOCFAIL",
      "DEVICEERR_UPLOADCANCELLED", "DEVICEERR_TIMEOUT", "DEVICEERR_64D_8303USB",
      "DEVICEERR_64D_BADCMP", "DEVICEERR_64D_CANTDEBUG", "DEVICEERR_64D_BADDMA",
      "DEVICEERR_SC64_CTRLRESETFAIL", "DEVICEERR_SC64_CTRLRELEASEFAIL", "DEVICEERR_SC64_FIRMWARECHECKFAIL",
      "DEVICEERR_SC64_FIRMWAREUNKNOWN" }

\* a default label that warns about every value reaching it
HdeDefaultUnguarded(err) ==
    HdeReturn(<<LogColored(Format(STR_Unhandled, <<>>, err.val), "CRDEF_ERROR")>>)

\* lines 489-492: the default label of the switch
HdeDefault(err) ==
    IF err.name # "DEVICEERR_OK" /\ err.name # "DEVICEERR_NOTCART"
    THEN HdeReturn(<<LogColored(Format(STR_Unhandled, <<>>, err.val), "CRDEF_ERROR")>>)
    ELSE HdeReturn(<<>>)

\* lines 380-494: the switch
handle_deviceerror(err, cart, linux) ==
    CASE err.name = "DEVICEERR_USBBUSY" ->
            HdeTerminate(Reason(MSG_USBBUSY, <<>>, 0))
      [] err.name = "DEVICEERR_NODEVICES" ->
            HdeTerminate(Reason(MSG_NODEVICES, <<>>, 0))
      [] err.name = "DEVICEERR_CARTFINDFAIL" ->
            IF cart = CART_NONE
                THEN (IF linux THEN HdeTerminate(Reason(MSG_CARTFINDFAIL_NONE_LINUX, <<>>, 0))
                               ELSE HdeTerminate(Reason(MSG_CARTFINDFAIL_NONE, <<>>, 0)))
                ELSE HdeTerminate(Reason(MSG_CARTFINDFAIL_REQUESTED, <<>>, 0))
      [] err.name = "DEVICEERR_CANTOPEN" ->
            HdeTerminate(Reason(MSG_CANTOPEN, <<>>, 0))
      [] err.name = "DEVICEERR_RESETFAIL" ->
            HdeTerminate(Reason(MSG_RESETFAIL, <<>>, 0))
      [] err.name = "DEVICEERR_RESETPORTFAIL" ->
            HdeTerminate(Reason(MSG_RESETPORTFAIL, <<>>, 0))
      [] err.name = "DEVICEERR_TIMEOUTSETFAIL" ->
            HdeTerminate(Reason(MSG_TIMEOUTSETFAIL, <<>>, 0))
      [] err.name = "DEVICEERR_PURGEFAIL" ->
            HdeTerminate(Reason(MSG_PURGEFAIL, <<>>, 0))
      [] err.name = "DEVICEERR_READFAIL" ->
            HdeTerminate(Reason(MSG_READFAIL, <<>>, 0))
      [] err.name = "DEVICEERR_WRITEFAIL" ->
            HdeTerminate(Reason(MSG_WRITEFAIL, <<>>, 0))
      [] err.name = "DEVICEERR_WRITEZERO" ->
            HdeTerminate(Reason(MSG_WRITEZERO, <<>>, 0))
      [] err.name = "DEVICEERR_CLOSEFAIL" ->
            HdeTerminate(Reason(MSG_CLOSEFAIL, <<>>, 0))
      [] err.name = "DEVICEERR_BITMODEFAIL_RESET" ->
            HdeTerminate(Reason(MSG_BITMODEFAIL_RESET, <<>>, FT_BITMODE_RESET))
      [] err.name = "DEVICEERR_BITMODEFAIL_SYNCFIFO" ->
            HdeTerminate(Reason(MSG_BITMODEFAIL_SYNCFIFO, <<>>, FT_BITMODE_SYNC_FIFO))
      [] err.name = "DEVICEERR_SETDTRFAIL" ->
            HdeTerminate(Reason(MSG_SETDTRFAIL, <<>>, 0))
      [] err.name = "DEVICEERR_CLEARDTRFAIL" ->
            HdeTerminate(Reason(MSG_CLEARDTRFAIL, <<>>, 0))
      [] err.name = "DEVICEERR_TXREPLYMISMATCH" ->
            HdeTerminate(Reason(MSG_TXREPLYMISMATCH, <<>>, 0))
      [] err.name = "DEVICEERR_READCOMPSIGFAIL" ->
            HdeTerminate(Reason(MSG_READCOMPSIGFAIL, <<>>, 0))
      [] err.name = "DEVICEERR_NOCOMPSIG" ->
            HdeTerminate(Reason(MSG_NOCOMPSIG, <<>>, 0))
      [] err.name = "DEVICEERR_READPACKSIZEFAIL" ->
            HdeTerminate(Reason(MSG_READPACKSIZEFAIL, <<>>, 0))
      [] err.name = "DEVICEERR_BADPACKSIZE" ->
            HdeTerminate(Reason(MSG_BADPACKSIZE, <<>>, 0))
      [] err.name = "DEVICEERR_MALLOCFAIL" ->
            HdeTerminate(Reason(MSG_MALLOCFAIL, <<>>, 0))
      [] err.name = "DEVICEERR_UPLOADCANCELLED" ->
            HdeReturn(<<LogReplace(STR_UploadCancelled, "CRDEF_PROGRAM")>>)
      [] err.name = "DEVICEERR_TIMEOUT" ->
            HdeTerminate(Reason(MSG_TIMEOUT, <<>>, 0))
      [] err.name = "DEVICEERR_64D_8303USB" ->
            HdeTerminate(Reason(MSG_64D_8303USB, <<>>, 0))
      [] err.name = "DEVICEERR_64D_BADCMP" ->
            HdeTerminate(Reason(MSG_64D_BADCMP, <<>>, 0))
      [] err.name = "DEVICEERR_64D_CANTDEBUG" ->
            HdeTerminate(Reason(MSG_64D_CANTDEBUG, <<>>, 0))
      [] err.name = "DEVICEERR_64D_BADDMA" ->
            HdeTerminate(Reason(MSG_64D_BADDMA, <<>>, 0))
      [] err.name = "DEVICEERR_SC64_CTRLRESETFAIL" ->
            HdeTerminate(Reason(MSG_SC64_CTRLRESETFAIL, <<>>, 0))
      [] err.name = "DEVICEERR_SC64_CTRLRELEASEFAIL" ->
            HdeTerminate(Reason(MSG_SC64_CTRLRELEASEFAIL, <<>>, 0))
      [] err.name = "DEVICEERR_SC64_FIRMWARECHECKFAIL" ->
            HdeTerminate(Reason(MSG_SC64_FIRMWARECHECKFAIL, <<>>, 0))
      [] err.name = "DEVICEERR_SC64_FIRMWAREUNKNOWN" ->
            HdeTerminate(Reason(MSG_SC64_FIRMWAREUNKNOWN, <<>>, 0))
      [] OTHER ->
            HdeDefault(err)

\* ---------------------------------------------------------------- program state

VARIABLES
    pc,                 \* where control is: "main", inside terminate, "exited", "crashed"
    LINUX,              \* the build: TRUE when compiled with LINUX defined
    debugout,           \* debug_getdebugout() != NULL
    deviceopen,         \* device_isopen()
    usingcurses,        \* term_isusingcurses()
    termios,            \* attributes of terminal 0: "orig" or "raw"
    global_terminating, \* the process-wide flag terminate sets
    exitstatus,         \* the status the process ended with; -1 while it runs
    reason,             \* the reason argument of the terminate call in progress
    trace,              \* every collaborator call made so far, in order
    call,               \* the call main made last
    ret,                \* the enum value that call returned to main; 0 when it returned none
    str,                \* the string a formatter returned to main, until main parses a string
    ncalls,             \* number of calls main has made
    tcalls,             \* number of times terminate has been entered
    entry,              \* what held when terminate was entered
    increment,          \* gen_filename: static int increment
    lasttime,           \* gen_filename: static int lasttime
    clock,              \* the local wall clock: an index into Instants
    binaryout,          \* debug_getbinaryout(): the output directory, or NULL
    last,               \* the gen_filename call made last
    picked,             \* some earlier gen_filename call that returned a name
    hist,               \* what the clock and the callers have done so far
    bar                 \* progressbar_draw: the call in progress and its output

tvars == <<pc, LINUX, debugout, deviceopen, usingcurses, termios, global_terminating,
           exitstatus, reason, trace, call, ret, str, ncalls, tcalls, entry>>

fvars == <<increment, lasttime, clock, binaryout, last, picked, hist>>

pvars == <<bar>>

vars == <<tvars, fvars, pvars>>

\* ---------------------------------------------------------------- bounds and inputs

\* calls of terminate and handle_deviceerror main makes in one run
MaxCalls == 2

\* length of the over-long argument
LongLen == 230

\* char temp[255] of terminate
TEMP_SIZE == 255

\* "" and strings that are neither a digit of the range nor a canonical name
OtherInputs ==
    { <<>>,                                   \* ""
      <<47>>, <<58>>, <<97>>,                 \* "/"  ":"  "a"
      <<49,50>>, <<49,48>>, <<48,49>>,        \* "12" "10" "01"
      <<115,99,54,52>>,                       \* "sc64"
      <<120,49,48,51>>,                       \* "x103"
      <<101,101,112,114,111,109,32,52,107,98,105,116>>,  \* "eeprom 4kbit"
      <<98,111,103,117,115>>,                 \* "bogus"
      <<83,67,54>>,                           \* "SC6"
      <<83,67,54,52,32>>,                     \* "SC64 "
      <<37,100>> }                            \* "%d"

\* one-character strings "0" .. "9"
DigitInputs == { <<CH_0 + d>> : d \in 0..9 }

\* the canonical names of all three tables
NameInputs ==
    {cart_strings[i] : i \in 1..cart_strcount}
        \cup {cic_strings[i] : i \in 1..cic_strcount}
        \cup {save_strings[i] : i \in 1..save_strcount}

\* a command-line argument longer than temp can hold
LongInput == [i \in 1..LongLen |-> 97]

Inputs == OtherInputs \cup DigitInputs \cup NameInputs \cup {LongInput}

\* numbers that are no enumerator of DeviceError
OutOfDomain == {-1, 100, 255}

DeviceErrors == {Named(n) : n \in DeviceErrorNames} \cup {Unnamed(k) : k \in OutOfDomain}

\* reasons other callers pass to terminate directly
DirectReasons ==
    { NullReason, Reason(<<>>, <<>>, 0), Reason(MSG_MALLOCFAIL, <<>>, 0),
      Reason(STR_UnknownCart, <<98,111,103,117,115>>, 0),
      Reason(STR_UnknownCart, LongInput, 0) }

\* a call main makes: the function, its string, DeviceError or enum argument,
\* the length of trace when it was made and, for a parser given the string a
\* formatter returned, that formatter
NoCall == [fn |-> "", s |-> <<>>, e |-> Named(""), v |-> 0, at |-> 0, from |-> ""]

\* main holds no formatted string
NoStr == [s |-> <<>>, fn |-> "", v |-> 0]

NoEntry == [at |-> 0, debugout |-> FALSE, deviceopen |-> FALSE]

\* no gen_filename call
NoName == [made |-> FALSE, ok |-> FALSE, name |-> <<>>, inst |-> 0, inc |-> 0]

\* no call yet: calls counts the calls up to two, insec the calls made while
\* the clock showed its present value, burst tells that some second saw more
\* than CounterMod calls
NoHist == [calls |-> 0, insec |-> 0, burst |-> FALSE]

NoBinaryOut == [null |-> TRUE, path |-> <<>>]

\* no progressbar_draw call
NoBar == [pc |-> "idle", text |-> <<>>, num |-> 0, i |-> 0, blocks_done |-> 0, out |-> <<>>]

\* ---------------------------------------------------------------- terminate

InTerminate ==
    pc \in {"t_print", "t_debugout", "t_device", "t_pause", "t_key",
            "t_flag", "t_end", "t_exit"}

\* control enters terminate(r)
EnterTerminate(r) ==
    /\ pc' = "t_print"
    /\ reason' = r
    /\ tcalls' = tcalls + 1
    /\ entry' = [at |-> Len(trace), debugout |-> debugout, deviceopen |-> deviceopen]

\* lines 44-55: format the reason into temp and print it.  A formatted reason
\* that does not fit temp overruns the stack buffer: the build either goes on
\* with the bytes it wrote or the process is killed.
TerminatePrint ==
    /\ pc = "t_print"
    /\ LET text == Format(reason.fmt, reason.s, reason.d)
           printed == <<LogColored(STR_Error \o text, "CRDEF_ERROR"),
                        LogColored(STR_Newline, "CRDEF_ERROR")>>
       IN  IF reason.null \/ reason.fmt = <<>>
           THEN /\ trace' = Append(trace, LogColored(STR_Newline, "CRDEF_ERROR"))
                /\ pc' = "t_debugout"
                /\ UNCHANGED exitstatus
           ELSE IF Len(text) + 1 <= TEMP_SIZE
           THEN /\ trace' = trace \o printed
                /\ pc' = "t_debugout"
                /\ UNCHANGED exitstatus
           ELSE \/ /\ trace' = trace \o printed
                   /\ pc' = "t_debugout"
                   /\ UNCHANGED exitstatus
                \/ /\ pc' = "crashed"
                   /\ exitstatus' = 134
                   /\ UNCHANGED trace
    /\ UNCHANGED <<LINUX, debugout, deviceopen, usingcurses, termios, global_terminating,
                   reason, call, ret, str, ncalls, tcalls, entry, fvars, pvars>>

\* lines 57-59
TerminateCloseDebugout ==
    /\ pc = "t_debugout"
    /\ IF debugout
       THEN /\ trace' = Append(trace, Call("debug_closedebugout"))
            /\ debugout' = FALSE
       ELSE UNCHANGED <<trace, debugout>>
    /\ pc' = "t_device"
    /\ UNCHANGED <<LINUX, deviceopen, usingcurses, termios, global_terminating, exitstatus,
                   reason, call, ret, str, ncalls, tcalls, entry, fvars, pvars>>

\* lines 61-63
TerminateCloseDevice ==
    /\ pc = "t_device"
    /\ IF deviceopen
       THEN /\ trace' = Append(trace, Call("device_close"))
            /\ deviceopen' = FALSE
       ELSE UNCHANGED <<trace, deviceopen>>
    /\ pc' = "t_pause"
    /\ UNCHANGED <<LINUX, debugout, usingcurses, termios, global_terminating, exitstatus,
                   reason, call, ret, str, ncalls, tcalls, entry, fvars, pvars>>

\* lines 65-78 and 84: the prompt, and everything up to the blocking read
TerminatePause ==
    /\ pc = "t_pause"
    /\ IF ~usingcurses /\ LINUX
       THEN /\ trace' = trace \o <<LogColored(STR_PressAnyKey, "CRDEF_INPUT"),
                                   Call("tcsetattr_raw")>>
            /\ termios' = "raw"
       ELSE /\ trace' = Append(trace, LogColored(STR_PressAnyKey, "CRDEF_INPUT"))
            /\ UNCHANGED termios
    /\ pc' = "t_key"
    /\ UNCHANGED <<LINUX, debugout, deviceopen, usingcurses, global_terminating, exitstatus,
                   reason, call, ret, str, ncalls, tcalls, entry, fvars, pvars>>

\* lines 70, 79-80 and 84: the key arrives and the blocking read returns
TerminateKey ==
    /\ pc = "t_key"
    /\ IF usingcurses
       THEN /\ trace' = Append(trace, Call("getch"))
            /\ UNCHANGED termios
       ELSE IF LINUX
       THEN /\ trace' = trace \o <<Call("getchar"), Call("tcsetattr_orig")>>
            /\ termios' = "orig"
       ELSE /\ trace' = Append(trace, Call("system_pause"))
            /\ UNCHANGED termios
    /\ pc' = "t_flag"
    /\ UNCHANGED <<LINUX, debugout, deviceopen, usingcurses, global_terminating, exitstatus,
                   reason, call, ret, str, ncalls, tcalls, entry, fvars, pvars>>

\* line 87
TerminateSetFlag ==
    /\ pc = "t_flag"
    /\ global_terminating' = TRUE
    /\ pc' = "t_end"
    /\ UNCHANGED <<LINUX, debugout, deviceopen, usingcurses, termios, exitstatus, trace,
                   reason, call, ret, str, ncalls, tcalls, entry, fvars, pvars>>

\* line 88
TerminateTermEnd ==
    /\ pc = "t_end"
    /\ trace' = Append(trace, Call("term_end"))
    /\ pc' = "t_exit"
    /\ UNCHANGED <<LINUX, debugout, deviceopen, usingcurses, termios, global_terminating,
                   exitstatus, reason, call, ret, str, ncalls, tcalls, entry, fvars, pvars>>

\* line 89: exit(-1); the status the parent sees is -1 & 0377
TerminateExit ==
    /\ pc = "t_exit"
    /\ trace' = Append(trace, Call("exit"))
    /\ exitstatus' = (-1) % 256
    /\ pc' = "exited"
    /\ UNCHANGED <<LINUX, debugout, deviceopen, usingcurses, termios, global_terminating,
                   reason, call, ret, str, ncalls, tcalls, entry, fvars, pvars>>

\* ---------------------------------------------------------------- calls main makes

CanCall == pc = "main" /\ ncalls < MaxCalls

\* some module calls terminate(reason) directly
CallTerminate ==
    /\ CanCall
    /\ \E r \in DirectReasons :
        /\ call' = [NoCall EXCEPT !.fn = "terminate", !.s = r.fmt, !.at = Len(trace)]
        /\ EnterTerminate(r)
    /\ ncalls' = ncalls + 1
    /\ UNCHANGED <<LINUX, debugout, deviceopen, usingcurses, termios, global_terminating,
                   exitstatus, trace, ret, str, fvars, pvars>>

\* what device_getcart() may answer; it is asked only for
\* DEVICEERR_CARTFINDFAIL
CartAnswers(err) ==
    IF err.name = "DEVICEERR_CARTFINDFAIL" THEN {CART_NONE} \cup CartTypes ELSE {CART_NONE}

\* handle_deviceerror(err)
CallHandleDeviceError ==
    /\ CanCall
    /\ \E err \in DeviceErrors :
       \E cart \in CartAnswers(err) :
        LET r == handle_deviceerror(err, cart, LINUX)
        IN  /\ call' = [NoCall EXCEPT !.fn = "handle_deviceerror", !.e = err, !.v = cart,
                                       !.at = Len(trace)]
            /\ IF r.term
               THEN /\ EnterTerminate(r.reason)
                    /\ UNCHANGED trace
               ELSE /\ trace' = trace \o r.log
                    /\ UNCHANGED <<pc, reason, tcalls, entry>>
    /\ ncalls' = ncalls + 1
    /\ UNCHANGED <<LINUX, debugout, deviceopen, usingcurses, termios, global_terminating,
                   exitstatus, ret, str, fvars, pvars>>

\* the strings main passes to a parser: an input, or the string a formatter
\* returned
ParseArgs == {[s |-> s, fn |-> "", v |-> 0] : s \in Inputs} \cup ({str} \ {NoStr})

\* main acts on what a parser did with argument a.s; the string main held is
\* used up
Parsed(fn, a, r) ==
    /\ call' = [NoCall EXCEPT !.fn = fn, !.s = a.s, !.v = a.v, !.from = a.fn,
                              !.at = Len(trace)]
    /\ IF r.term
       THEN /\ EnterTerminate(r.reason)
            /\ ret' = 0
       ELSE /\ ret' = r.value
            /\ UNCHANGED <<pc, reason, tcalls, entry>>
    /\ str' = NoStr
    /\ UNCHANGED <<LINUX, debugout, deviceopen, usingcurses, termios, global_terminating,
                   exitstatus, trace, ncalls, fvars, pvars>>

CallCartStrToType ==
    /\ pc = "main"
    /\ \E a \in ParseArgs : Parsed("cart_strtotype", a, cart_strtotype(a.s))

CallCicStrToType ==
    /\ pc = "main"
    /\ \E a \in ParseArgs : Parsed("cic_strtotype", a, cic_strtotype(a.s))

CallSaveStrToType ==
    /\ pc = "main"
    /\ \E a \in ParseArgs : Parsed("save_strtotype", a, save_strtotype(a.s))

\* main keeps the string a formatter returned
Formatted(fn, v, s) ==
    /\ call' = [NoCall EXCEPT !.fn = fn, !.v = v, !.at = Len(trace)]
    /\ str' = [s |-> s, fn |-> fn, v |-> v]
    /\ ret' = 0
    /\ UNCHANGED <<pc, LINUX, debugout, deviceopen, usingcurses, termios, global_terminating,
                   exitstatus, reason, trace, ncalls, tcalls, entry, fvars, pvars>>

CallCartTypeToStr ==
    /\ pc = "main"
    /\ \E v \in CartTypes : Formatted("cart_typetostr", v, cart_typetostr(v))

CallCicTypeToStr ==
    /\ pc = "main"
    /\ \E v \in CICTypes : Formatted("cic_typetostr", v, cic_typetostr(v))

CallSaveTypeToStr ==
    /\ pc = "main"
    /\ \E v \in SaveTypes : Formatted("save_typetostr", v, save_typetostr(v))

\* the other components are idle in this specification
FileIdle ==
    /\ increment = 0 /\ lasttime = 0 /\ clock = 1 /\ binaryout = NoBinaryOut
    /\ last = NoName /\ picked = NoName
    /\ hist = NoHist

BarIdle == bar = NoBar

MainIdle ==
    /\ pc = "main" /\ LINUX = TRUE /\ debugout = FALSE /\ deviceopen = FALSE
    /\ usingcurses = FALSE /\ termios = "orig" /\ global_terminating = FALSE
    /\ exitstatus = -1 /\ reason = NullReason /\ trace = <<>> /\ call = NoCall
    /\ ret = 0 /\ str = NoStr /\ ncalls = 0 /\ tcalls = 0 /\ entry = NoEntry

Init ==
    /\ pc = "main"
    /\ LINUX \in BOOLEAN
    /\ debugout \in BOOLEAN
    /\ deviceopen \in BOOLEAN
    /\ usingcurses \in BOOLEAN
    /\ termios = "orig"
    /\ global_terminating = FALSE
    /\ exitstatus = -1
    /\ reason = NullReason
    /\ trace = <<>>
    /\ call = NoCall
    /\ ret = 0
    /\ str = NoStr
    /\ ncalls = 0
    /\ tcalls = 0
    /\ entry = NoEntry
    /\ FileIdle
    /\ BarIdle

\* the termination protocol and the device-error classifier
Next ==
    \/ CallTerminate
    \/ CallHandleDeviceError
    \/ TerminatePrint
    \/ TerminateCloseDebugout
    \/ TerminateCloseDevice
    \/ TerminatePause
    \/ TerminateKey
    \/ TerminateSetFlag
    \/ TerminateTermEnd
    \/ TerminateExit

Spec == Init /\ [][Next]_vars

\* the identifier codec, whose parsers end in terminate
NextCodec ==
    \/ CallCartStrToType
    \/ CallCicStrToType
    \/ CallSaveStrToType
    \/ CallCartTypeToStr
    \/ CallCicTypeToStr
    \/ CallSaveTypeToStr
    \/ TerminatePrint
    \/ TerminateCloseDebugout
    \/ TerminateCloseDevice
    \/ TerminatePause
    \/ TerminateKey
    \/ TerminateSetFlag
    \/ TerminateTermEnd
    \/ TerminateExit

SpecCodec == Init /\ [][NextCodec]_vars

\* ---------------------------------------------------------------- gen_filename

\* increment%100 of the sprintf
CounterMod == 100

\* the values the model lets the static counter reach
MaxIncrement == 101

\* struct tm of the local times the clock shows, in chronological order:
\* one second past midnight, midnight of the next day, and the second after it
Instants ==
    << [tm_year |-> 100, tm_mon |-> 0, tm_mday |-> 1, tm_hour |-> 0, tm_min |-> 0, tm_sec |-> 1]
     , [tm_year |-> 100, tm_mon |-> 0, tm_mday |-> 2, tm_hour |-> 0, tm_min |-> 0, tm_sec |-> 0]
     , [tm_year |-> 100, tm_mon |-> 0, tm_mday |-> 2, tm_hour |-> 0, tm_min |-> 0, tm_sec |-> 1]
    >>

\* the arguments of gen_filename: "rom" and "bin"
FileName == <<114,111,109>>

FileExt == <<98,105,110>>

\* the output directory "out/"
OutDir == [null |-> FALSE, path |-> <<111,117,116,47>>]

\* line 334
CurTime(tm) == tm.tm_hour * 60 * 60 + tm.tm_min * 60 + tm.tm_sec

\* a counter that is reset but never advanced
NextIncrementStuck(inc, lt, curtime) == IF lt # curtime THEN 0 ELSE inc

\* lines 337-343: the static counter and marker after a call at curtime
NextIncrement(inc, lt, curtime) == IF lt # curtime THEN 0 ELSE inc + 1

NextLastTime(lt, curtime) == IF lt # curtime THEN curtime ELSE lt

\* lines 349-350: "%02d%02d%02d%02d%02d%02d%02d"
ExtraName(tm, inc) ==
    Dec02((tm.tm_year + 1900) % 100) \o Dec02(tm.tm_mon + 1) \o Dec02(tm.tm_mday)
        \o Dec02(tm.tm_hour) \o Dec02(tm.tm_min) \o Dec02(tm.tm_sec)
        \o Dec02(inc % CounterMod)

\* lines 353-366: "%s%s-%s.%s" with the output directory, "%s-%s.%s" without
FinalName(dir, filename, extraname, fileext) ==
    IF ~dir.null
    THEN dir.path \o filename \o <<45>> \o extraname \o <<46>> \o fileext
    ELSE filename \o <<45>> \o extraname \o <<46>> \o fileext

\* gen_filename(FileName, FileExt): both allocations succeed, or one of them
\* fails and NULL is returned; the statics are updated before either
GenFilename ==
    /\ NextIncrement(increment, lasttime, CurTime(Instants[clock])) <= MaxIncrement
    /\ \E ok \in BOOLEAN :
        LET tm == Instants[clock]
            inc == NextIncrement(increment, lasttime, CurTime(tm))
            name == IF ok THEN FinalName(binaryout, FileName, ExtraName(tm, inc), FileExt)
                          ELSE <<>>
            this == [made |-> TRUE, ok |-> ok, name |-> name, inst |-> clock, inc |-> inc]
        IN  /\ increment' = inc
            /\ lasttime' = NextLastTime(lasttime, CurTime(tm))
            /\ last' = this
            /\ \/ UNCHANGED picked
               \/ last.ok /\ ~picked.made /\ picked' = last
            /\ hist' = [calls |-> IF hist.calls < 2 THEN hist.calls + 1 ELSE 2,
                        insec |-> hist.insec + 1,
                        burst |-> hist.burst \/ hist.insec + 1 > CounterMod]
    /\ UNCHANGED <<clock, binaryout, tvars, pvars>>

\* time passes: the local wall clock shows a later second
ClockTick ==
    /\ \E c \in (clock + 1)..Len(Instants) : clock' = c
    /\ hist' = [hist EXCEPT !.insec = 0]
    /\ UNCHANGED <<increment, lasttime, binaryout, last, picked, tvars, pvars>>

InitFile ==
    /\ MainIdle
    /\ BarIdle
    /\ increment = 0
    /\ lasttime = 0
    /\ clock \in 1..Len(Instants)
    /\ binaryout \in {NoBinaryOut, OutDir}
    /\ last = NoName
    /\ picked = NoName
    /\ hist = NoHist

NextFile ==
    \/ GenFilename
    \/ ClockTick

SpecFile == InitFile /\ [][NextFile]_vars

\* ---------------------------------------------------------------- progressbar_draw

\* int prog_size = 16
prog_size == 16

\* the fractions drawn are num/Den for num in 0..Den
Den == 40

\* the text arguments drawn: "" and "Up"
BarTexts == { <<>>, <<85,112>> }

\* the glyph of a finished block: "%c" with 219, or the three bytes of U+2588
FilledGlyph(linux) == IF linux THEN <<226,150,136>> ELSE <<219>>

\* the glyph of a block still to do: "%c" with 176, or the three bytes of U+2591
EmptyGlyph(linux) == IF linux THEN <<226,150,145>> ELSE <<176>>

\* a cell count rounded to the nearest cell
BlocksDoneRounded(num) == (2 * num * prog_size + Den) \div (2 * Den)

\* line 104: (int)(percent*prog_size) for percent = num/Den; the product with
\* 16 is exact in a float and the conversion drops the fraction
BlocksDone(num) == (num * prog_size) \div Den

\* "%.02f" of percent*100.0f: the hundredths nearest to 100*num/Den
Hundredths(num) == (2 * 10000 * num + Den) \div (2 * Den)

Fixed02(h) == Dec(h \div 100) \o <<46>> \o Dec02(h % 100)

\* "] %.02f%%\n"
Butt(num) == <<93,32>> \o Fixed02(Hundredths(num)) \o <<37,10>>

\* lines 102-107: the call begins and prints the head with log_replace
BarBegin ==
    /\ bar.pc = "idle"
    /\ \E text \in BarTexts, num \in 0..Den :
        bar' = [pc |-> "fill", text |-> text, num |-> num, i |-> 0,
                blocks_done |-> BlocksDone(num),
                out |-> <<LogReplace(text \o <<32,91>>, "color")>>]
    /\ UNCHANGED <<tvars, fvars>>

\* lines 110-117: one turn of the first loop, or leaving it
BarFill ==
    /\ bar.pc = "fill"
    /\ IF bar.i < bar.blocks_done
       THEN bar' = [bar EXCEPT !.out = Append(@, LogColored(FilledGlyph(LINUX), "color")),
                               !.i = @ + 1]
       ELSE bar' = [bar EXCEPT !.pc = "empty"]
    /\ UNCHANGED <<tvars, fvars>>

\* lines 118-125: one turn of the second loop, or leaving it
BarEmpty ==
    /\ bar.pc = "empty"
    /\ IF bar.i < prog_size
       THEN bar' = [bar EXCEPT !.out = Append(@, LogColored(EmptyGlyph(LINUX), "color")),
                               !.i = @ + 1]
       ELSE bar' = [bar EXCEPT !.pc = "butt"]
    /\ UNCHANGED <<tvars, fvars>>

\* lines 127-128: the closing bracket and the percentage; the call returns
BarButt ==
    /\ bar.pc = "butt"
    /\ bar' = [bar EXCEPT !.out = Append(@, LogColored(Butt(bar.num), "color")),
                          !.pc = "done"]
    /\ UNCHANGED <<tvars, fvars>>

InitBar ==
    /\ pc = "main"
    /\ LINUX \in BOOLEAN
    /\ debugout = FALSE /\ deviceopen = FALSE /\ usingcurses = FALSE
    /\ termios = "orig" /\ global_terminating = FALSE /\ exitstatus = -1
    /\ reason = NullReason /\ trace = <<>> /\ call = NoCall /\ ret = 0
    /\ str = NoStr /\ ncalls = 0 /\ tcalls = 0 /\ entry = NoEntry
    /\ FileIdle
    /\ bar = NoBar

NextBar ==
    \/ BarBegin
    \/ BarFill
    \/ BarEmpty
    \/ BarButt

SpecBar == InitBar /\ [][NextBar]_vars

\* ---------------------------------------------------------------- properties

\* what terminate has logged and called since control entered it
Since == SubSeq(trace, entry.at + 1, Len(trace))

Fns(seq) == [i \in 1..Len(seq) |-> seq[i].fn]

Count(seq, fn) == Cardinality({i \in 1..Len(seq) : seq[i].fn = fn})

IsPrefix(s, t) == Len(s) <= Len(t) /\ s = SubSeq(t, 1, Len(s))

\* the process is gone
Ended == pc \in {"exited", "crashed"}

\* the blocking single-key read of the build and terminal mode at hand
KeyRead ==
    IF usingcurses THEN <<"getch">>
    ELSE IF LINUX THEN <<"tcsetattr_raw", "getchar", "tcsetattr_orig">>
    ELSE <<"system_pause">>

\* the calls of one complete terminate(reason), in order
TerminatePath ==
    (IF reason.null \/ reason.fmt = <<>>
        THEN <<"log_colored">> ELSE <<"log_colored", "log_colored">>)
    \o (IF entry.debugout THEN <<"debug_closedebugout">> ELSE <<>>)
    \o (IF entry.deviceopen THEN <<"device_close">> ELSE <<>>)
    \o <<"log_colored">>
    \o KeyRead
    \o <<"term_end", "exit">>

\* C1: every terminate() call walks the one path diagnostic, close debug
\* output, close device, prompt, one blocking key read, global_terminating,
\* term_end(), exit with a non-zero status: what it has done so far is always
\* a prefix of that path and all of it once the process is gone; the flag is
\* never set before the key read, term_end() is never called before the flag
\* is set, and control never comes back to the caller.
C1_SingleForwardPath ==
    tcalls > 0 =>
        /\ pc # "main"
        /\ IsPrefix(Fns(Since), TerminatePath)
        /\ global_terminating =>
                \E i \in 1..Len(Since) : Since[i].fn \in {"getch", "getchar", "system_pause"}
        /\ Count(Since, "term_end") > 0 => global_terminating
        /\ Ended =>
                /\ Fns(Since) = TerminatePath
                /\ global_terminating
                /\ exitstatus # 0

\* C2: terminate() calls debug_closedebugout() once if the debug output was
\* open when it was entered and never otherwise, device_close() once if the
\* device was open and never otherwise, and when the process is gone neither
\* is open.
C2_ClosesExactlyWhatIsOpen ==
    tcalls > 0 =>
        /\ Count(Since, "debug_closedebugout") <= (IF entry.debugout THEN 1 ELSE 0)
        /\ Count(Since, "device_close") <= (IF entry.deviceopen THEN 1 ELSE 0)
        /\ Ended =>
                /\ Count(Since, "debug_closedebugout") = (IF entry.debugout THEN 1 ELSE 0)
                /\ Count(Since, "device_close") = (IF entry.deviceopen THEN 1 ELSE 0)
                /\ ~debugout
                /\ ~deviceopen

\* the named variants that are hard failures
HardFailures ==
    DeviceErrorNames \ {"DEVICEERR_UPLOADCANCELLED", "DEVICEERR_OK", "DEVICEERR_NOTCART"}

\* C3: handle_deviceerror has exactly one outcome for every DeviceError value:
\* for a hard failure (MALLOCFAIL among them) it calls terminate() once with
\* that variant's non-empty message and control does not come back; for
\* UPLOADCANCELLED, OK, NOTCART and a value outside the enumeration it never
\* calls terminate() and returns.
C3_Classification ==
    /\ \A err \in DeviceErrors : \A cart \in CartAnswers(err) :
        LET r == handle_deviceerror(err, cart, LINUX)
        IN  /\ r.term = (err.name \in HardFailures)
            /\ r.term => /\ ~r.reason.null
                         /\ r.reason.fmt # <<>>
                         /\ Format(r.reason.fmt, r.reason.s, r.reason.d) # <<>>
                         /\ r.log = <<>>
    /\ call.fn = "handle_deviceerror" =>
        IF call.e.name \in HardFailures
        THEN /\ pc # "main"
             /\ tcalls = 1
             /\ reason = handle_deviceerror(call.e, call.v, LINUX).reason
             /\ pc \notin {"t_print", "crashed"} =>
                    Since[1] = LogColored(STR_Error \o Format(reason.fmt, reason.s, reason.d),
                                          "CRDEF_ERROR")
        ELSE /\ pc = "main"
             /\ tcalls = 0

\* C3: the process has gone through terminate() for DEVICEERR_MALLOCFAIL, after
\* a call of handle_deviceerror that returned
C3_Witness ==
    /\ pc = "exited"
    /\ call.fn = "handle_deviceerror"
    /\ call.e = Named("DEVICEERR_MALLOCFAIL")
    /\ tcalls = 1
    /\ ncalls = 2
    /\ Since[1].text = STR_Error \o MSG_MALLOCFAIL

\* the generic warning of the default label
IsUnhandledWarning(line) ==
    /\ line.fn = "log_colored"
    /\ Contains(line.text, SubSeq(STR_Unhandled, 1, FirstPercent(STR_Unhandled) - 1))

\* C4 as the specification states it: for DEVICEERR_OK, DEVICEERR_NOTCART and
\* any unrecognized number handle_deviceerror logs the generic warning line and
\* returns without terminating.
C4_AlwaysWarns ==
    (/\ call.fn = "handle_deviceerror"
     /\ call.e.name \in {"DEVICEERR_OK", "DEVICEERR_NOTCART", ""})
        => /\ pc = "main"
           /\ tcalls = 0
           /\ Len(trace) = call.at + 1
           /\ IsUnhandledWarning(trace[Len(trace)])

\* C4 as the code has it: for DEVICEERR_OK and DEVICEERR_NOTCART
\* handle_deviceerror logs nothing and returns without terminating; for an
\* unrecognized number N it logs the one error-coloured line
\* "Unhandled device error 'N'." and returns without terminating.
C4_WarnsOnlyUnrecognized ==
    call.fn = "handle_deviceerror" =>
        /\ call.e.name \in {"DEVICEERR_OK", "DEVICEERR_NOTCART"} =>
                /\ pc = "main"
                /\ tcalls = 0
                /\ Len(trace) = call.at
        /\ call.e.name = "" =>
                /\ pc = "main"
                /\ tcalls = 0
                /\ Len(trace) = call.at + 1
                /\ IsUnhandledWarning(trace[Len(trace)])
                /\ trace[Len(trace)] =
                        LogColored(Format(STR_Unhandled, <<>>, call.e.val), "CRDEF_ERROR")

\* C4: handle_deviceerror(DEVICEERR_OK) has returned without a line, after an
\* unrecognized number was warned about
C4_Witness ==
    /\ call.fn = "handle_deviceerror"
    /\ call.e = Named("DEVICEERR_OK")
    /\ pc = "main"
    /\ Len(trace) = 1
    /\ call.at = 1
    /\ IsUnhandledWarning(trace[1])

Parsers == {"cart_strtotype", "cic_strtotype", "save_strtotype"}

\* the formatter whose strings a parser reads back
FormatterOf(fn) ==
    CASE fn = "cart_strtotype" -> "cart_typetostr"
      [] fn = "cic_strtotype" -> "cic_typetostr"
      [] fn = "save_strtotype" -> "save_typetostr"

\* C5: parsing the string a formatter gave for a non-NONE value v returns v
\* without terminating, for carts and save types (tables indexed by v-1) and
\* for CICs (table indexed by v).
C5_RoundTrip ==
    /\ \A v \in CartTypes : cart_strtotype(cart_typetostr(v)) = ParseReturn(v)
    /\ \A v \in CICTypes : cic_strtotype(cic_typetostr(v)) = ParseReturn(v)
    /\ \A v \in SaveTypes : save_strtotype(save_typetostr(v)) = ParseReturn(v)
    /\ (call.fn \in Parsers /\ call.from = FormatterOf(call.fn)) =>
            /\ pc = "main"
            /\ tcalls = 0
            /\ ret = call.v

\* C5: cic_strtotype has read back the string cic_typetostr gave for CIC_5101
C5_Witness ==
    /\ call.fn = "cic_strtotype"
    /\ call.from = "cic_typetostr"
    /\ call.v = CIC_5101
    /\ call.s = ArrayAt(cic_strings, CIC_5101)
    /\ ret = CIC_5101
    /\ pc = "main"

\* the values whose digit form or name form the string s is, for a parser
ValuesOf(fn, s) ==
    CASE fn = "cart_strtotype" ->
            {v \in CartTypes : s = <<CH_0 + v>> \/ s = cart_typetostr(v)}
      [] fn = "cic_strtotype" ->
            {v \in CICTypes : s = <<CH_0 + v>> \/ s = cic_typetostr(v)}
      [] fn = "save_strtotype" ->
            {v \in SaveTypes : s = <<CH_0 + v>> \/ s = save_typetostr(v)}

\* C6: a parser returns v for the digit form and for the name form of every
\* valid value v; for every other string it calls terminate(), nothing is
\* returned to the caller, and the message terminate() prints contains the
\* string verbatim.
C6_ParserContract ==
    call.fn \in Parsers =>
        IF ValuesOf(call.fn, call.s) # {}
        THEN /\ pc = "main"
             /\ tcalls = 0
             /\ ValuesOf(call.fn, call.s) = {ret}
        ELSE /\ pc # "main"
             /\ tcalls = 1
             /\ pc # "t_print" =>
                    \E i \in 1..Len(Since) :
                        /\ Since[i].fn = "log_colored"
                        /\ Contains(Since[i].text, call.s)

\* the two-digit counter field of a name gen_filename returned
CounterField(name) ==
    LET dot == Len(name) - Len(FileExt)
    IN  10 * (name[dot - 2] - CH_0) + (name[dot - 1] - CH_0)

\* a returned name without its counter field
Stem(name) == SubSeq(name, 1, Len(name) - Len(FileExt) - 3)

\* C7: of two consecutive gen_filename calls, a second one in the same
\* wall-clock second returns a name that differs only in the counter field,
\* which is larger; a second one in a later wall-clock second returns a name
\* whose counter field is 00.
C7_CounterProtocol ==
    [][ (last.ok /\ last'.ok /\ last' # last) =>
            IF last'.inst = last.inst
            THEN /\ Stem(last'.name) = Stem(last.name)
                 /\ CounterField(last'.name) > CounterField(last.name)
            ELSE CounterField(last'.name) = 0 ]_vars

\* C8: while the clock has not gone backwards, all calls lie within one
\* century and no second has seen more than 100 calls, a successful call
\* returns a name different from the name any earlier successful call returned.
C8_CollisionFree ==
    (picked.made /\ picked.ok /\ last.ok /\ ~hist.burst) => picked.name # last.name

\* C8: the hundredth call of one second, whose counter has wrapped to 00, is
\* compared with an earlier call of the same second
C8_Witness ==
    /\ ~hist.burst
    /\ hist.insec = CounterMod
    /\ picked.made /\ picked.ok /\ last.ok
    /\ picked.inst = last.inst
    /\ last.inc = CounterMod
    /\ CounterField(last.name) = 0

\* the cells of the bar: the lines between the head and the butt
Cells == SubSeq(bar.out, 2, Len(bar.out) - 1)

\* floor(fraction * 16) for the fraction bar.num / Den
FloorCells ==
    CHOOSE k \in 0..prog_size :
        /\ k * Den <= bar.num * prog_size
        /\ k = prog_size \/ (k + 1) * Den > bar.num * prog_size

\* C9: for a fraction in [0,1] progressbar_draw emits one replace-in-place
\* head, then 16 cells of which the first floor(fraction*16) are filled and
\* the others empty, then the closing bracket with the percentage; fraction 0
\* gives 0 filled cells and "0.00%", 0.5 gives 8, 1 gives 16 and "100.00%".
C9_SixteenCells ==
    bar.pc = "done" =>
        /\ Len(bar.out) = 16 + 2
        /\ bar.out[1].fn = "log_replace"
        /\ bar.out[1].text = bar.text \o <<32,91>>
        /\ \A i \in 1..16 :
                Cells[i] = LogColored(IF i <= FloorCells THEN FilledGlyph(LINUX)
                                                        ELSE EmptyGlyph(LINUX), "color")
        /\ bar.out[Len(bar.out)].fn = "log_colored"
        /\ At(bar.out[Len(bar.out)].text, 0) = 93
        /\ bar.num = 0 =>
                /\ Count(Cells, "log_colored") = 16
                /\ \A i \in 1..16 : Cells[i].text = EmptyGlyph(LINUX)
                /\ bar.out[Len(bar.out)].text = <<93,32,48,46,48,48,37,10>>
        /\ 2 * bar.num = Den =>
                /\ \A i \in 1..8 : Cells[i].text = FilledGlyph(LINUX)
                /\ \A i \in 9..16 : Cells[i].text = EmptyGlyph(LINUX)
        /\ bar.num = Den =>
                /\ \A i \in 1..16 : Cells[i].text = FilledGlyph(LINUX)
                /\ bar.out[Len(bar.out)].text = <<93,32,49,48,48,46,48,48,37,10>>

\* C9: a bar for the fraction 0.5 has been drawn
C9_Witness ==
    /\ bar.pc = "done"
    /\ 2 * bar.num = Den
    /\ Cells[8].text = FilledGlyph(LINUX)
    /\ Cells[9].text = EmptyGlyph(LINUX)

\* C10: the first gen_filename call of a process returns a name whose counter
\* field is 00, whatever the local time of day, 00:00:00 included.
C10_FirstCounterZero ==
    (hist.calls = 1 /\ last.ok) => CounterField(last.name) = 0

=============================================================================
